---- MODULE Spec2Model ----
(***************************************************************************)
(* Trip lifecycle and live-position reconciliation of the bus tracking     *)
(* API.  The persisted Trip, Bus and Route collections are the state; one  *)
(* action per request handler.  Times are JavaScript Date values in        *)
(* milliseconds; the clock only takes the instants of Instants.  reqs      *)
(* holds the requests that wait in "await trip.save()", for the            *)
(* specification in which two handlers interleave; elsewhere a handler     *)
(* runs in one step and reqs stays empty.                                  *)
(*                                                                         *)
(* Mongoose behaviour the handlers rest on: document.save() first runs the *)
(* schema validators of every path of the document (the built-in           *)
(* validateBeforeSave hook is the first pre('save') hook), then the        *)
(* schema's own pre('save') hook, then writes; a rejected validation       *)
(* writes nothing.  Model.findOneAndUpdate() runs no save hook.            *)
(***************************************************************************)
EXTENDS Integers, Sequences, FiniteSets, TLC

VARIABLES now, trips, buses, routes, resp, reqs

vars == <<now, trips, buses, routes, resp, reqs>>

----------------------------------------------------------------------------
(* Bounds of the model *)

MaxSaveLatencyMs == 1

(* Program constants *)

MsPerMinute == 60000
EarlyDepartureMs == 1800000
NotesMaxLength == 500
AverageSpeed == 50

NoDate == 0 - 1
NoCoord == 0 - 1
NoId == 0
Absent == 0 - 1
NumberMaxValue == 2147483647
NoEta == 0 - 1
EtaRangeError == 0 - 2

----------------------------------------------------------------------------
(* Values the requests draw from *)

DepartureA == EarlyDepartureMs + 1000
ArrivalA == DepartureA + 180 * MsPerMinute

Instants ==
  { 0, 1000, DepartureA - 1, DepartureA,
    ArrivalA - 30000, ArrivalA + 10 * MsPerMinute }

BusIds == {1}
RouteIds == {1}

\* Ids a request may name: trip 2 is no trip of the lifecycle, which creates
\* trip 1 only (its handlers read and write the one trip they name), and bus 2
\* is no bus.
AnyTripIds == {1, 2}
LifecycleTripIds == {1}
TrackedTripIds == {1, 2}
AnyBusIds == BusIds \cup {2}
AnyRouteIds == RouteIds \cup {2}
Users == {"admin", "op1", "op2"}
Statuses == {"scheduled", "in-progress", "completed", "cancelled", "delayed"}
BusStatuses == {"active", "inactive", "maintenance"}

role(u) == IF u = "admin" THEN "admin" ELSE "operator"


NoUser == "none"
NoNotes == << >>
NoReason == << >>

----------------------------------------------------------------------------
(* JavaScript helpers *)

\* Math.round(n / d) for d > 0: the nearest integer, halves towards +infinity.
MathRound(n, d) == (2 * n + d) \div (2 * d)

\* String.length of a text kept as a sequence of pieces.
PieceLength(p) ==
  CASE p = "memo" -> 4
    [] p = "log" -> 480
    [] p = "breakdown" -> 240
    [] p = ". Cancelled: " -> 13
    [] p = "Cancelled: " -> 11
    [] OTHER -> 1

RECURSIVE TextLength(_)
TextLength(s) == IF s = << >> THEN 0 ELSE PieceLength(Head(s)) + TextLength(Tail(s))

----------------------------------------------------------------------------
(* Trip schema: src/models/Trip.js *)

\* new Trip(body): the schema defaults under the fields of the request body.
NewTrip(body) ==
  [ busId |-> body.busId,
    routeId |-> body.routeId,
    departureTime |-> body.departureTime,
    estimatedArrival |-> body.estimatedArrival,
    actualDeparture |-> NoDate,
    actualArrival |-> NoDate,
    status |-> body.status,
    occupancy |-> 0,
    delay |-> 0,
    currentWaypoint |-> 0,
    notes |-> body.notes ]

\* The validators that look another collection up take it as B (buses) or R
\* (routes): the collection as it is when save() runs.
busIdValidator(doc, B) ==
  /\ doc.busId \in DOMAIN B
  /\ B[doc.busId].status = "active"

routeIdValidator(doc, R) ==
  /\ doc.routeId \in DOMAIN R
  /\ R[doc.routeId].isActive

departureTimeValidator(doc, t) ==
  IF doc.status \in {"completed", "in-progress"} THEN TRUE
  ELSE doc.departureTime > t

\* A schema that accepts any estimatedArrival.
estimatedArrivalAnyTime(doc) == TRUE

estimatedArrivalValidator(doc) == doc.estimatedArrival > doc.departureTime

\* A schema without the 30 minute rule.
actualDepartureAnyTime(doc) == TRUE

actualDepartureValidator(doc) ==
  IF doc.actualDeparture = NoDate THEN TRUE
  ELSE doc.actualDeparture >= doc.departureTime - EarlyDepartureMs

actualArrivalValidator(doc) ==
  IF doc.actualArrival = NoDate \/ doc.actualDeparture = NoDate THEN TRUE
  ELSE doc.actualArrival > doc.actualDeparture

statusValidator(doc) == doc.status \in Statuses

occupancyValidator(doc, B) ==
  /\ doc.occupancy >= 0
  /\ \/ doc.busId \notin DOMAIN B
     \/ doc.occupancy <= B[doc.busId].capacity

currentWaypointValidator(doc) == doc.currentWaypoint >= 0

notesValidator(doc) == TextLength(doc.notes) <= NotesMaxLength

\* The validation step of save(): every validator of the schema, at time t.
TripValid(doc, t, B, R) ==
  /\ busIdValidator(doc, B)
  /\ routeIdValidator(doc, R)
  /\ departureTimeValidator(doc, t)
  /\ estimatedArrivalValidator(doc)
  /\ actualDepartureValidator(doc)
  /\ actualArrivalValidator(doc)
  /\ statusValidator(doc)
  /\ occupancyValidator(doc, B)
  /\ currentWaypointValidator(doc)
  /\ notesValidator(doc)

\* A hook that looks at the clock only, whatever the status.
TripPreSaveAnyStatus(doc, t) ==
  IF doc.departureTime <= t
    THEN [doc EXCEPT !.status = "in-progress",
                     !.actualDeparture = IF @ = NoDate THEN t ELSE @]
    ELSE doc

\* tripSchema.pre('save'): the clock rule, at time t.
TripPreSave(doc, t) ==
  IF doc.status = "scheduled" /\ doc.departureTime <= t
  THEN [doc EXCEPT !.status = "in-progress",
                   !.actualDeparture =
                      IF doc.actualDeparture = NoDate THEN t ELSE doc.actualDeparture]
  ELSE doc

\* doc.save(): validated at tv, hooked at th; ok is FALSE when validation rejects.
TripSave(doc, tv, th, B, R) ==
  IF TripValid(doc, tv, B, R)
  THEN [ok |-> TRUE, doc |-> TripPreSave(doc, th)]
  ELSE [ok |-> FALSE, doc |-> doc]

\* tripSchema.methods.startTrip, before its save().
tripStartTrip(doc, t) ==
  [doc EXCEPT !.status = "in-progress", !.actualDeparture = t]

\* tripSchema.methods.completeTrip, before its save().
tripCompleteTrip(doc, t) ==
  [doc EXCEPT !.status = "completed",
              !.actualArrival = t,
              !.delay = MathRound(t - doc.estimatedArrival, MsPerMinute)]

\* tripSchema.methods.cancelTrip, before its save().
tripCancelTrip(doc, reason) ==
  [doc EXCEPT !.status = "cancelled",
              !.notes =
                 IF reason # NoReason
                 THEN IF doc.notes # NoNotes
                      THEN doc.notes \o <<". Cancelled: ">> \o reason
                      ELSE <<"Cancelled: ">> \o reason
                 ELSE doc.notes]

\* tripSchema.statics.findActiveTrips: the ids of the matching documents.
findActiveTrips == {t \in DOMAIN trips : trips[t].status = "in-progress"}


----------------------------------------------------------------------------
(* Responses *)

NoProgress == [tripId |-> NoId, currentWaypoint |-> 0, progress |-> 0]

\* What the handler of request op on document id answers at the current time.
Reply(op, id, code) ==
  [op |-> op, id |-> id, code |-> code, items |-> {},
   seen |-> "none", progress |-> NoProgress, etas |-> << >>]

\* The trip status the answer r shows: the status of the returned document, or
\* the "Current status" of a refusal.
Seen(r, status) == [r EXCEPT !.seen = status]

\* res.status(code).json(...) with nothing written.
Respond(r) ==
  /\ resp' = r
  /\ UNCHANGED <<now, trips, buses, routes, reqs>>

\* The instants the pre('save') hook of a save() begun now may read.
HookTimes == {h \in Instants : now <= h /\ h <= now + MaxSaveLatencyMs}

\* await doc.save() of trip t followed by the handler's answer; a rejected
\* validation reaches errorHandler, which answers 400.
SaveTrip(op, t, doc, okCode) ==
  \E th \in HookTimes :
    LET r == TripSave(doc, now, th, buses, routes) IN
      /\ trips' = IF r.ok THEN (t :> r.doc) @@ trips ELSE trips
      /\ now' = IF r.ok THEN th ELSE now
      /\ resp' = Reply(op, t, IF r.ok THEN okCode ELSE 400)
      /\ UNCHANGED <<buses, routes, reqs>>

----------------------------------------------------------------------------
(* Trip controller: src/models/Bus.js, from line 164 *)

\* trip.busId.operatorId of a trip populated with its bus's operatorId.
Owner(doc) == buses[doc.busId].operatorId

\* "Check access permissions for operators"
accessDenied(doc, u) == role(u) = "operator" /\ Owner(doc) # u

\* "Check if trip can be started"
startRefused(doc) ==
  \/ doc.status # "scheduled"
  \/ buses[doc.busId].status # "active"

\* "Check if trip can be completed"
completeRefused(doc) == doc.status # "in-progress"

\* A cancel check that forgets the cancelled trips.
cancelRefusedCompletedOnly(doc) == doc.status = "completed"

\* "Check if trip can be cancelled"
cancelRefused(doc) == doc.status = "completed" \/ doc.status = "cancelled"

\* validateTrip (src/middleware/validation.js): the request body checks.
validateTrip(body) ==
  /\ body.departureTime > now
  /\ body.estimatedArrival > body.departureTime

NextTripId == Cardinality(DOMAIN trips) + 1

CreateTrip(u, body) ==
  /\ NextTripId \in LifecycleTripIds
  /\ IF ~validateTrip(body)
     THEN Respond(Reply("createTrip", NoId, 400))
     ELSE IF role(u) = "operator"
             /\ (body.busId \notin DOMAIN buses \/ buses[body.busId].operatorId # u)
     THEN Respond(Reply("createTrip", NoId, 403))
     ELSE SaveTrip("createTrip", NextTripId, NewTrip(body), 201)

\* delete updateData._id / busId / routeId
updateData(body) ==
  [f \in DOMAIN body \ {"_id", "busId", "routeId"} |-> body[f]]

\* Object.assign(trip, updateData)
ObjectAssign(doc, data) ==
  [f \in DOMAIN doc |-> IF f \in DOMAIN data THEN data[f] ELSE doc[f]]

UpdateTrip(t, u, body) ==
  IF t \notin DOMAIN trips
  THEN Respond(Reply("updateTrip", t, 404))
  ELSE IF accessDenied(trips[t], u)
  THEN Respond(Reply("updateTrip", t, 403))
  ELSE SaveTrip("updateTrip", t, ObjectAssign(trips[t], updateData(body)), 200)

StartTrip(t, u) ==
  IF t \notin DOMAIN trips
  THEN Respond(Reply("startTrip", t, 404))
  ELSE IF accessDenied(trips[t], u)
  THEN Respond(Reply("startTrip", t, 403))
  ELSE IF startRefused(trips[t])
  THEN Respond(Seen(Reply("startTrip", t, 400), trips[t].status))
  ELSE SaveTrip("startTrip", t, tripStartTrip(trips[t], now), 200)

CompleteTrip(t, u) ==
  IF t \notin DOMAIN trips
  THEN Respond(Reply("completeTrip", t, 404))
  ELSE IF accessDenied(trips[t], u)
  THEN Respond(Reply("completeTrip", t, 403))
  ELSE IF completeRefused(trips[t])
  THEN Respond(Seen(Reply("completeTrip", t, 400), trips[t].status))
  ELSE SaveTrip("completeTrip", t, tripCompleteTrip(trips[t], now), 200)

CancelTrip(t, u, reason) ==
  IF t \notin DOMAIN trips
  THEN Respond(Reply("cancelTrip", t, 404))
  ELSE IF accessDenied(trips[t], u)
  THEN Respond(Reply("cancelTrip", t, 403))
  ELSE IF cancelRefused(trips[t])
  THEN Respond(Seen(Reply("cancelTrip", t, 400), trips[t].status))
  ELSE SaveTrip("cancelTrip", t, tripCancelTrip(trips[t], reason), 200)

\* The operatorId of trip.busId as populated with the fields of selected.
populatedOperatorId(doc, selected) ==
  IF "operatorId" \in selected THEN buses[doc.busId].operatorId ELSE NoUser

\* For operators, "filter their own buses only": findActiveTrips populates
\* busId with 'busNumber currentLocation'.
activeTripsFor(u) ==
  IF role(u) = "operator"
  THEN {t \in findActiveTrips :
          LET o == populatedOperatorId(trips[t], {"busNumber", "currentLocation"})
          IN  o # NoUser /\ o = u}
  ELSE findActiveTrips

GetActiveTrips(u) ==
  /\ resp' = [Reply("getActiveTrips", NoId, 200) EXCEPT !.items = activeTripsFor(u)]
  /\ UNCHANGED <<now, trips, buses, routes, reqs>>

GetTripById(t, u) ==
  IF t \notin DOMAIN trips
  THEN Respond(Reply("getTripById", t, 404))
  ELSE IF accessDenied(trips[t], u)
  THEN Respond(Reply("getTripById", t, 403))
  ELSE Respond(Seen(Reply("getTripById", t, 200), trips[t].status))

\* tripSchema.methods.updateOccupancy called on the stored trip t.  No request
\* handler calls it; the answer records how the call ends: 200 when save()
\* resolves, 400 when save() rejects, 500 for the Error the method throws.
UpdateOccupancy(t, newOccupancy) ==
  /\ t \in DOMAIN trips
  /\ IF trips[t].busId \in DOMAIN buses
        /\ newOccupancy <= buses[trips[t].busId].capacity
     THEN SaveTrip("updateOccupancy", t,
                   [trips[t] EXCEPT !.occupancy = newOccupancy], 200)
     ELSE Respond(Reply("updateOccupancy", t, 500))

----------------------------------------------------------------------------
(* Bus schema: src/models/Bus.js, to line 163 *)

\* currentLocation of a bus that was never located: the schema defaults.
DefaultLocation(t) ==
  [latitude |-> NoCoord, longitude |-> NoCoord, speed |-> 0, heading |-> 0,
   lastUpdated |-> t]

\* An update that keeps the old speed and heading when the new ones are 0.
updateLocationMerged(doc, latitude, longitude, speed, heading, t) ==
  [doc EXCEPT !.currentLocation =
     [latitude |-> latitude, longitude |-> longitude,
      speed |-> IF speed = 0 THEN doc.currentLocation.speed ELSE speed,
      heading |-> IF heading = 0 THEN doc.currentLocation.heading ELSE heading,
      lastUpdated |-> t]]

\* busSchema.methods.updateLocation, before its save().
updateLocation(doc, latitude, longitude, speed, heading, t) ==
  [doc EXCEPT !.currentLocation =
     [latitude |-> latitude, longitude |-> longitude, speed |-> speed,
      heading |-> heading, lastUpdated |-> t]]

\* The validators of the bus schema (coordinates in degrees).
BusValid(doc) ==
  /\ role(doc.operatorId) = "operator"
  /\ doc.capacity >= 10 /\ doc.capacity <= 100
  /\ doc.status \in BusStatuses
  /\ \/ doc.currentLocation.latitude = NoCoord
     \/ doc.currentLocation.latitude >= -90 /\ doc.currentLocation.latitude <= 90
  /\ \/ doc.currentLocation.longitude = NoCoord
     \/ doc.currentLocation.longitude >= -180 /\ doc.currentLocation.longitude <= 180
  /\ doc.currentLocation.speed >= 0
  /\ doc.currentLocation.heading >= 0 /\ doc.currentLocation.heading <= 360

\* busSchema.pre('save'): an overdue maintenance takes the bus out of service.
BusPreSave(doc, t) ==
  IF doc.nextMaintenanceDue # NoDate /\ doc.nextMaintenanceDue < t
     /\ doc.status = "active"
  THEN [doc EXCEPT !.status = "maintenance"]
  ELSE doc

BusSave(doc, t) ==
  IF BusValid(doc)
  THEN [ok |-> TRUE, doc |-> BusPreSave(doc, t)]
  ELSE [ok |-> FALSE, doc |-> doc]

----------------------------------------------------------------------------
(* Bus controller: src/controllers/busController.js *)

\* delete updateData.busNumber / operatorId / _id
busUpdateData(body) ==
  [f \in DOMAIN body \ {"_id", "busNumber", "operatorId"} |-> body[f]]

\* The query of updateBus matches bus b for user u.
updateBusMatches(b, u) ==
  /\ b \in DOMAIN buses
  /\ buses[b].isActive
  /\ role(u) = "operator" => buses[b].operatorId = u

\* Bus.findOneAndUpdate(query, updateData, {runValidators: true}): the update
\* validators check the paths of the update; no save hook runs.
UpdateBus(b, u, body) ==
  IF b \in DOMAIN buses /\ role(u) = "operator" /\ buses[b].operatorId # u
  THEN Respond(Reply("updateBus", b, 403))
  ELSE IF ~updateBusMatches(b, u)
  THEN Respond(Reply("updateBus", b, 404))
  ELSE LET doc == ObjectAssign(buses[b], busUpdateData(body)) IN
         IF ~BusValid(doc)
         THEN Respond(Reply("updateBus", b, 400))
         ELSE /\ buses' = [buses EXCEPT ![b] = doc]
              /\ resp' = Reply("updateBus", b, 200)
              /\ UNCHANGED <<now, trips, routes, reqs>>

\* busSchema.methods.isOnTrip
isOnTrip(b) ==
  \E t \in DOMAIN trips :
    trips[t].busId = b /\ trips[t].status \in {"scheduled", "in-progress"}

\* getAllBuses: the ids of the buses listed (no filter, first page); "for
\* operators, only show their own buses".
GetAllBuses(u) ==
  /\ resp' = [Reply("getAllBuses", NoId, 200) EXCEPT
                !.items = {b \in DOMAIN buses :
                             /\ buses[b].isActive
                             /\ role(u) = "operator" => buses[b].operatorId = u}]
  /\ UNCHANGED <<now, trips, buses, routes, reqs>>

\* deleteBus: the soft delete.
DeleteBus(b, u) ==
  IF b \notin DOMAIN buses
  THEN Respond(Reply("deleteBus", b, 404))
  ELSE IF isOnTrip(b)
  THEN Respond(Reply("deleteBus", b, 400))
  ELSE LET saved == BusSave([buses[b] EXCEPT !.isActive = FALSE,
                                             !.status = "inactive"], now)
       IN  IF ~saved.ok
           THEN Respond(Reply("deleteBus", b, 400))
           ELSE /\ buses' = [buses EXCEPT ![b] = saved.doc]
                /\ resp' = Reply("deleteBus", b, 200)
                /\ UNCHANGED <<now, trips, routes, reqs>>

----------------------------------------------------------------------------
(* Tracking controller: src/controllers/busController.js, from line 400 *)

\* sin^2(d / 2) for d whole degrees, in units of 10^-7.
SinSqHalf(d) ==
  CASE d = 0 -> 0
    [] d = 1 -> 762
    [] d = 2 -> 3046
    [] OTHER -> 6852

\* cos(p) for p whole degrees of latitude, in units of 10^-3.
CosDeg(p) ==
  CASE p = 6 -> 995
    [] p = 7 -> 993
    [] p = 8 -> 990
    [] OTHER -> 988

Abs(x) == IF x < 0 THEN 0 - x ELSE x

\* calculateDistance: the haversine term a in units of 10^-10.  The code returns
\* R * 2 * atan2(sqrt(a), sqrt(1 - a)), which increases strictly with a, so two
\* distances compare as their terms do.
calculateDistance(lat1, lng1, lat2, lng2) ==
  SinSqHalf(Abs(lat2 - lat1)) * 1000
    + ((CosDeg(lat1) * CosDeg(lat2)) \div 1000) * SinSqHalf(Abs(lng2 - lng1))

\* A comparison that lets a later waypoint win a tie.
closerOrEqual(distance, minDistance) == distance <= minDistance

\* "if (distance < minDistance)"
closer(distance, minDistance) == distance < minDistance

\* The forEach of calculateNearestWaypoint from the waypoint at position i on
\* (position i holds the waypoint of index i - 1).
RECURSIVE nearestFrom(_, _, _, _, _, _)
nearestFrom(lat, lng, waypoints, i, nearestIndex, minDistance) ==
  IF i > Len(waypoints) THEN nearestIndex
  ELSE LET distance == calculateDistance(lat, lng, waypoints[i].latitude,
                                         waypoints[i].longitude)
       IN  IF closer(distance, minDistance)
           THEN nearestFrom(lat, lng, waypoints, i + 1, i - 1, distance)
           ELSE nearestFrom(lat, lng, waypoints, i + 1, nearestIndex, minDistance)

\* A search that starts from a minimum of 0: no waypoint is ever closer.
nearestFromZero(lat, lng, waypoints) ==
  nearestFrom(lat, lng, waypoints, 1, 0, 0)

calculateNearestWaypoint(lat, lng, waypoints) ==
  nearestFrom(lat, lng, waypoints, 1, 0, NumberMaxValue)

\* const { speed = 0, heading = 0 } = req.body
orZero(x) == IF x = Absent THEN 0 ELSE x

\* A lookup that also finds the scheduled trips of the bus.
activeTripOfAnyOpen(b) ==
  LET found == {t \in DOMAIN trips :
                  /\ trips[t].busId = b
                  /\ trips[t].status \in {"scheduled", "in-progress"}}
  IN  IF found = {} THEN {NoId} ELSE found

\* Trip.findOne({busId, status: 'in-progress'}): no sort is given, so any
\* matching trip may be the one found; NoId when none matches.
activeTripOf(b) ==
  LET found == {t \in DOMAIN trips :
                  trips[t].busId = b /\ trips[t].status = "in-progress"}
  IN  IF found = {} THEN {NoId} ELSE found

\* A report that saves the trip whatever the index.
indexAlwaysWritten(currentWaypoint, stored) == TRUE

\* "if (currentWaypoint !== activeTrip.currentWaypoint)"
indexChanged(currentWaypoint, stored) == currentWaypoint # stored

\* A tripProgress whose percentage is cut off instead of rounded.
tripProgressFloor(t, currentWaypoint, waypoints) ==
  [tripId |-> t, currentWaypoint |-> currentWaypoint,
   progress |-> (currentWaypoint * 100) \div Len(waypoints)]

\* The tripProgress of the answer.
tripProgressOf(t, currentWaypoint, waypoints) ==
  [tripId |-> t, currentWaypoint |-> currentWaypoint,
   progress |-> MathRound(currentWaypoint * 100, Len(waypoints))]

\* A lookup that also finds the buses that were deleted.
busFoundAnyState(b) == b \in DOMAIN buses

\* Bus.findOne({_id: busId, isActive: true}) finds a bus.
busFound(b) == b \in DOMAIN buses /\ buses[b].isActive

UpdateBusLocation(b, u, fix) ==
  IF ~busFound(b)
  THEN Respond(Reply("updateBusLocation", b, 404))
  ELSE IF role(u) = "operator" /\ buses[b].operatorId # u
  THEN Respond(Reply("updateBusLocation", b, 403))
  ELSE
    LET speed == orZero(fix.speed)
        heading == orZero(fix.heading)
        saved == BusSave(updateLocation(buses[b], fix.latitude, fix.longitude,
                                        speed, heading, now), now)
        B == IF saved.ok THEN [buses EXCEPT ![b] = saved.doc] ELSE buses
    IN
      IF ~saved.ok
      THEN Respond(Reply("updateBusLocation", b, 400))
      ELSE
        \E t \in activeTripOf(b), th \in HookTimes :
          LET waypoints == IF t = NoId THEN << >>
                           ELSE routes[trips[t].routeId].waypoints
              currentWaypoint ==
                calculateNearestWaypoint(fix.latitude, fix.longitude, waypoints)
              changed == t # NoId /\ Len(waypoints) > 0
                         /\ indexChanged(currentWaypoint, trips[t].currentWaypoint)
              r == IF changed
                   THEN TripSave([trips[t] EXCEPT !.currentWaypoint = currentWaypoint],
                                 now, th, B, routes)
                   ELSE [ok |-> TRUE, doc |-> << >>]
          IN
            /\ buses' = B
            /\ trips' = IF changed /\ r.ok THEN [trips EXCEPT ![t] = r.doc] ELSE trips
            /\ now' = IF changed /\ r.ok THEN th ELSE now
            /\ resp' =
                 IF ~r.ok THEN Reply("updateBusLocation", b, 400)
                 ELSE [Reply("updateBusLocation", b, 200) EXCEPT
                         !.progress =
                            IF t # NoId /\ Len(waypoints) > 0
                            THEN tripProgressOf(t, currentWaypoint, waypoints)
                            ELSE NoProgress]
            /\ UNCHANGED <<routes, reqs>>

\* An estimate that projects with the reported speed of the bus when it moves.
calculateETAFromSpeed(trip, bus, route, t) ==
  IF "currentLocation" \notin DOMAIN bus \/ trip.status # "in-progress"
  THEN NoEta
  ELSE IF Len(route.waypoints) = 0 THEN EtaRangeError
  ELSE LET speed == IF bus.currentLocation.speed > 0
                    THEN bus.currentLocation.speed ELSE AverageSpeed
       IN  t + (route.distance * (Len(route.waypoints) - trip.currentWaypoint)
                  * ((60 * MsPerMinute) \div speed)) \div Len(route.waypoints)

\* calculateETA at time t, for a trip populated with its bus: NoEta is null,
\* otherwise the milliseconds of the Date.  currentLocation is a nested path
\* of the bus schema, so the populated bus always carries the object.  Without
\* waypoints currentWaypoint / 0 is NaN or Infinity, the Date is invalid and
\* toISOString() throws a RangeError.  The milliseconds are exact for the
\* routes used here (whole quotients).
calculateETA(trip, bus, route, t) ==
  IF "currentLocation" \notin DOMAIN bus \/ trip.status # "in-progress"
  THEN NoEta
  ELSE IF Len(route.waypoints) = 0 THEN EtaRangeError
  ELSE t + (route.distance * (Len(route.waypoints) - trip.currentWaypoint)
              * ((60 * MsPerMinute) \div AverageSpeed)) \div Len(route.waypoints)

\* Trip.find({routeId, status: {$in: ['scheduled', 'in-progress']}})
activeTripsOn(r) ==
  {t \in DOMAIN trips :
     trips[t].routeId = r /\ trips[t].status \in {"scheduled", "in-progress"}}

\* trackRouteProgress: the estimatedTimeToDestination of every active trip of
\* the route; an exception of calculateETA reaches errorHandler (500).
TrackRouteProgress(r) ==
  IF r \notin DOMAIN routes \/ ~routes[r].isActive
  THEN Respond(Reply("trackRouteProgress", r, 404))
  ELSE LET etas == [t \in activeTripsOn(r) |->
                     calculateETA(trips[t], buses[trips[t].busId], routes[r], now)]
       IN  IF \E t \in activeTripsOn(r) : etas[t] = EtaRangeError
           THEN Respond(Reply("trackRouteProgress", r, 500))
           ELSE Respond([Reply("trackRouteProgress", r, 200) EXCEPT !.etas = etas])

----------------------------------------------------------------------------
(* Route schema and controller: src/models/Route.js,                        *)
(* src/controllers/routeController.js.  A waypoint's coordinates are kept   *)
(* as its latitude and longitude.                                           *)

\* Array.prototype.sort with (a, b) => a.distanceFromStart -
\* b.distanceFromStart: a stable sort, here as an insertion of w into the
\* sorted sequence after the waypoints that are not farther.
RECURSIVE insertByDistance(_, _)
insertByDistance(w, sorted) ==
  IF sorted = << >> THEN <<w>>
  ELSE IF w.distanceFromStart < Head(sorted).distanceFromStart
  THEN <<w>> \o sorted
  ELSE <<Head(sorted)>> \o insertByDistance(w, Tail(sorted))

RECURSIVE sortByDistance(_)
sortByDistance(waypoints) ==
  IF waypoints = << >> THEN << >>
  ELSE insertByDistance(waypoints[Len(waypoints)],
                        sortByDistance(SubSeq(waypoints, 1, Len(waypoints) - 1)))

\* The validators of the route schema (coordinates in degrees, the bounds
\* 5.5 and 10.0 taken to whole degrees).
RouteValid(doc) ==
  /\ doc.distance >= 1 /\ doc.distance <= 500
  /\ \A i \in 1..Len(doc.waypoints) :
       /\ doc.waypoints[i].latitude >= 6 /\ doc.waypoints[i].latitude <= 10
       /\ doc.waypoints[i].longitude >= 79 /\ doc.waypoints[i].longitude <= 82
       /\ doc.waypoints[i].distanceFromStart >= 0

\* routeSchema.pre('save'): "sort waypoints by distance from start"
RoutePreSave(doc) ==
  IF Len(doc.waypoints) > 0
  THEN [doc EXCEPT !.waypoints = sortByDistance(doc.waypoints)]
  ELSE doc

NextRouteId == Cardinality(DOMAIN routes) + 1

\* createRoute behind authorize('admin'): Route.create(req.body) saves the new
\* document.
CreateRoute(u, body) ==
  /\ NextRouteId \in RouteIds
  /\ IF role(u) # "admin"
     THEN Respond(Reply("createRoute", NoId, 403))
     ELSE LET doc == [isActive |-> TRUE, distance |-> body.distance,
                      waypoints |-> body.waypoints]
          IN  IF ~RouteValid(doc)
              THEN Respond(Reply("createRoute", NoId, 400))
              ELSE /\ routes' = (NextRouteId :> RoutePreSave(doc)) @@ routes
                   /\ resp' = Reply("createRoute", NextRouteId, 201)
                   /\ UNCHANGED <<now, trips, buses, reqs>>

\* delete updateData.routeNumber / _id
routeUpdateData(body) ==
  [f \in DOMAIN body \ {"_id", "routeNumber"} |-> body[f]]

\* updateRoute behind authorize('admin'): Route.findOneAndUpdate({_id,
\* isActive: true}, updateData, {runValidators: true}); no save hook runs.
UpdateRoute(r, u, body) ==
  IF role(u) # "admin"
  THEN Respond(Reply("updateRoute", r, 403))
  ELSE IF r \notin DOMAIN routes \/ ~routes[r].isActive
  THEN Respond(Reply("updateRoute", r, 404))
  ELSE LET doc == ObjectAssign(routes[r], routeUpdateData(body)) IN
         IF ~RouteValid(doc)
         THEN Respond(Reply("updateRoute", r, 400))
         ELSE /\ routes' = [routes EXCEPT ![r] = doc]
              /\ resp' = Reply("updateRoute", r, 200)
              /\ UNCHANGED <<now, trips, buses, reqs>>

----------------------------------------------------------------------------
(* Interleaved handlers.  A handler that writes a trip loads the document,  *)
(* changes it in memory and awaits save(); another handler may run during   *)
(* that await.  The first step of a handler runs to its "await trip.save()" *)
(* and the second is the save with the answer.                              *)

\* The paths of doc that save() finds modified: those whose value is not the
\* loaded one.
modifiedPaths(loaded, doc) == {f \in DOMAIN doc : doc[f] # loaded[f]}

\* A write that replaces the stored document by the one in memory.
replaceDocument(stored, doc, paths) == doc

\* The write of save() on a loaded document: updateOne({_id}, {$set: ...}) with
\* the modified paths only, whatever the stored document has become.
setModifiedPaths(stored, doc, paths) ==
  [f \in DOMAIN stored |-> IF f \in paths THEN doc[f] ELSE stored[f]]

\* Request q has loaded trip t, holds doc in memory and waits in save(); answer
\* is what it sends when the save resolves.
Await(q, t, doc, answer) ==
  /\ reqs' = (q :> [trip |-> t, loaded |-> trips[t], doc |-> doc,
                    answer |-> answer, stage |-> "read", wrote |-> 0]) @@ reqs
  /\ resp' = resp

\* The writes done so far.
Written == {q \in DOMAIN reqs : reqs[q].stage = "written"}

\* startTrip to its await.
StartTripRead(q, t, u) ==
  /\ q \notin DOMAIN reqs
  /\ IF t \notin DOMAIN trips
     THEN Respond(Reply("startTrip", t, 404))
     ELSE IF accessDenied(trips[t], u)
     THEN Respond(Reply("startTrip", t, 403))
     ELSE IF startRefused(trips[t])
     THEN Respond(Seen(Reply("startTrip", t, 400), trips[t].status))
     ELSE /\ Await(q, t, tripStartTrip(trips[t], now), Reply("startTrip", t, 200))
          /\ UNCHANGED <<now, trips, buses, routes>>

\* completeTrip to its await.
CompleteTripRead(q, t, u) ==
  /\ q \notin DOMAIN reqs
  /\ IF t \notin DOMAIN trips
     THEN Respond(Reply("completeTrip", t, 404))
     ELSE IF accessDenied(trips[t], u)
     THEN Respond(Reply("completeTrip", t, 403))
     ELSE IF completeRefused(trips[t])
     THEN Respond(Seen(Reply("completeTrip", t, 400), trips[t].status))
     ELSE /\ Await(q, t, tripCompleteTrip(trips[t], now), Reply("completeTrip", t, 200))
          /\ UNCHANGED <<now, trips, buses, routes>>

\* cancelTrip to its await.
CancelTripRead(q, t, u, reason) ==
  /\ q \notin DOMAIN reqs
  /\ IF t \notin DOMAIN trips
     THEN Respond(Reply("cancelTrip", t, 404))
     ELSE IF accessDenied(trips[t], u)
     THEN Respond(Reply("cancelTrip", t, 403))
     ELSE IF cancelRefused(trips[t])
     THEN Respond(Seen(Reply("cancelTrip", t, 400), trips[t].status))
     ELSE /\ Await(q, t, tripCancelTrip(trips[t], reason), Reply("cancelTrip", t, 200))
          /\ UNCHANGED <<now, trips, buses, routes>>

\* updateBusLocation to "await activeTrip.save()": the bus is saved, the trip
\* is loaded and the index computed; the handler answers at once when it has
\* no trip to save.
UpdateBusLocationRead(q, b, u, fix) ==
  /\ q \notin DOMAIN reqs
  /\ IF ~busFound(b)
     THEN Respond(Reply("updateBusLocation", b, 404))
     ELSE IF role(u) = "operator" /\ buses[b].operatorId # u
     THEN Respond(Reply("updateBusLocation", b, 403))
     ELSE
       LET saved == BusSave(updateLocation(buses[b], fix.latitude, fix.longitude,
                                           orZero(fix.speed), orZero(fix.heading),
                                           now), now)
       IN
         IF ~saved.ok
         THEN Respond(Reply("updateBusLocation", b, 400))
         ELSE
           \E t \in activeTripOf(b) :
             LET waypoints == IF t = NoId THEN << >>
                              ELSE routes[trips[t].routeId].waypoints
                 currentWaypoint ==
                   calculateNearestWaypoint(fix.latitude, fix.longitude, waypoints)
                 answer ==
                   [Reply("updateBusLocation", b, 200) EXCEPT
                      !.progress =
                         IF t # NoId /\ Len(waypoints) > 0
                         THEN tripProgressOf(t, currentWaypoint, waypoints)
                         ELSE NoProgress]
             IN
               /\ buses' = [buses EXCEPT ![b] = saved.doc]
               /\ IF t # NoId /\ Len(waypoints) > 0
                     /\ indexChanged(currentWaypoint, trips[t].currentWaypoint)
                  THEN Await(q, t, [trips[t] EXCEPT !.currentWaypoint = currentWaypoint],
                             answer)
                  ELSE resp' = answer /\ reqs' = reqs
               /\ UNCHANGED <<now, trips, routes>>

\* The save() request q waits in, and its answer: the document in memory is
\* validated and hooked, then its modified paths are written.
TripSaveWrite(q) ==
  /\ q \in DOMAIN reqs
  /\ reqs[q].stage = "read"
  /\ \E th \in HookTimes :
       LET r == TripSave(reqs[q].doc, now, th, buses, routes)
           paths == modifiedPaths(reqs[q].loaded, r.doc)
       IN  /\ trips' = IF r.ok
                       THEN [trips EXCEPT ![reqs[q].trip] =
                                            setModifiedPaths(@, r.doc, paths)]
                       ELSE trips
           /\ now' = IF r.ok THEN th ELSE now
           /\ resp' = IF r.ok THEN reqs[q].answer
                      ELSE [reqs[q].answer EXCEPT !.code = 400, !.progress = NoProgress]
           /\ reqs' = [reqs EXCEPT ![q] =
                         [@ EXCEPT !.doc = r.doc,
                                   !.stage = IF r.ok THEN "written" ELSE "failed",
                                   !.wrote = IF r.ok THEN Cardinality(Written) + 1
                                             ELSE 0]]
           /\ UNCHANGED <<buses, routes>>

----------------------------------------------------------------------------
(* Routers: src/routes, src/middleware/validation.js from line 292.  A      *)
(* request carries a token or none; a valid token is named by its user.     *)

NoToken == "none"

Tokens == Users \cup {NoToken, "forged"}

\* A check that lets a request without a valid token pass as operator op2.
authenticateAnyone(token) == IF token \in Users THEN token ELSE "op2"

\* authenticate: the req.user it sets, NoUser when it answers 401 (no token,
\* or jwt.verify throws).
authenticate(token) == IF token = NoToken \/ token \notin Users THEN NoUser ELSE token

\* The routes that begin with authenticate: all of the model but the public
\* tracking of a route.
routeProtected(op) == op # "trackRouteProgress"

\* The roles the authorize(...) of the route admits.
routeRoles(op) == IF op = "deleteBus" THEN {"admin"} ELSE {"admin", "operator"}

\* The status the middleware of the route answers to a request with this
\* token, 200 when next() reaches the controller.
Gate(op, token) ==
  IF ~routeProtected(op) THEN 200
  ELSE IF authenticate(token) = NoUser THEN 401
  ELSE IF role(authenticate(token)) \notin routeRoles(op) THEN 403
  ELSE 200

HttpGetAllBuses(token) ==
  IF Gate("getAllBuses", token) # 200
  THEN Respond(Reply("getAllBuses", NoId, Gate("getAllBuses", token)))
  ELSE GetAllBuses(authenticate(token))

HttpDeleteBus(b, token) ==
  IF Gate("deleteBus", token) # 200
  THEN Respond(Reply("deleteBus", b, Gate("deleteBus", token)))
  ELSE DeleteBus(b, authenticate(token))

HttpStartTrip(t, token) ==
  IF Gate("startTrip", token) # 200
  THEN Respond(Reply("startTrip", t, Gate("startTrip", token)))
  ELSE StartTrip(t, authenticate(token))

HttpCompleteTrip(t, token) ==
  IF Gate("completeTrip", token) # 200
  THEN Respond(Reply("completeTrip", t, Gate("completeTrip", token)))
  ELSE CompleteTrip(t, authenticate(token))

HttpCancelTrip(t, token, reason) ==
  IF Gate("cancelTrip", token) # 200
  THEN Respond(Reply("cancelTrip", t, Gate("cancelTrip", token)))
  ELSE CancelTrip(t, authenticate(token), reason)

HttpUpdateBusLocation(b, token, fix) ==
  IF Gate("updateBusLocation", token) # 200
  THEN Respond(Reply("updateBusLocation", b, Gate("updateBusLocation", token)))
  ELSE UpdateBusLocation(b, authenticate(token), fix)

HttpTrackRouteProgress(r, token) ==
  IF Gate("trackRouteProgress", token) # 200
  THEN Respond(Reply("trackRouteProgress", r, Gate("trackRouteProgress", token)))
  ELSE TrackRouteProgress(r)

----------------------------------------------------------------------------
(* Time *)

Tick == 
  /\ \E h \in Instants : h > now /\ now' = h
  /\ UNCHANGED <<trips, buses, routes, resp, reqs>>


----------------------------------------------------------------------------
(* Request inputs *)

CreateBodies ==
  { [busId |-> b, routeId |-> r, departureTime |-> d, estimatedArrival |-> e,
     status |-> s, notes |-> NoNotes] :
      b \in BusIds, r \in RouteIds, d \in {DepartureA, ArrivalA},
      e \in {DepartureA, ArrivalA}, s \in {"scheduled", "delayed"} }

UpdateBodies ==
  { [status |-> s] : s \in Statuses }
    \cup { [notes |-> <<"memo">>], [notes |-> <<"log">>], [busId |-> 2] }

Reasons == {NoReason, <<"breakdown">>}

BusUpdateBodies == { [status |-> s] : s \in BusStatuses }

\* Reported positions (whole degrees inside the accepted region), with both or
\* neither of the optional speed and heading.
FixPoints == { <<6, 79>>, <<7, 79>>, <<7, 80>>, <<8, 80>> }

Fixes ==
  { [latitude |-> p[1], longitude |-> p[2], speed |-> o[1], heading |-> o[2]] :
      p \in FixPoints, o \in { <<Absent, Absent>>, <<65, 180>> } }

Waypoint(la, lo, d) == [latitude |-> la, longitude |-> lo, distanceFromStart |-> d]

\* Waypoint sequences as a route creation stores them (sorted by
\* distanceFromStart): none, a line, a route whose second and third stops are
\* at equal distance from (7, 79), and an out-and-back route that passes
\* (7, 80) twice.
LineRoute ==
  << Waypoint(6, 79, 0), Waypoint(7, 79, 110), Waypoint(8, 80, 250) >>

TieRoute ==
  << Waypoint(8, 80, 0), Waypoint(6, 79, 250), Waypoint(8, 79, 470) >>

OutAndBackRoute ==
  << Waypoint(8, 80, 0), Waypoint(7, 80, 110), Waypoint(6, 79, 260),
     Waypoint(7, 80, 410) >>

RouteShapes == { << >>, LineRoute, TieRoute, OutAndBackRoute }

NewBus(operator, t) ==
  [operatorId |-> operator, capacity |-> 40, status |-> "active",
   isActive |-> TRUE, currentLocation |-> DefaultLocation(t),
   nextMaintenanceDue |-> NoDate]

NewRoute(waypoints) == [isActive |-> TRUE, distance |-> 100, waypoints |-> waypoints]

----------------------------------------------------------------------------
(* The trip lifecycle: one bus of operator op1 and one route exist, no trip. *)

Init ==
  /\ now = 0
  /\ trips = << >>
  /\ buses = [b \in BusIds |-> NewBus("op1", 0)]
  /\ routes = [r \in RouteIds |-> NewRoute(<< Waypoint(6, 79, 0), Waypoint(8, 79, 220) >>)]
  /\ resp = Reply("none", NoId, 200)
  /\ reqs = << >>

Next ==
  \/ Tick
  \/ \E u \in Users, body \in CreateBodies : CreateTrip(u, body)
  \/ \E t \in AnyTripIds, u \in Users, body \in UpdateBodies : UpdateTrip(t, u, body)
  \/ \E t \in AnyTripIds, u \in Users : StartTrip(t, u)
  \/ \E t \in AnyTripIds, u \in Users : CompleteTrip(t, u)
  \/ \E t \in AnyTripIds, u \in Users, reason \in Reasons : CancelTrip(t, u, reason)
  \/ \E u \in Users : GetActiveTrips(u)
  \/ \E t \in AnyTripIds, u \in Users : GetTripById(t, u)
  \/ \E b \in AnyBusIds, u \in Users, body \in BusUpdateBodies : UpdateBus(b, u, body)

Spec == Init /\ [][Next]_vars


----------------------------------------------------------------------------
(* Tracking: bus 1 has two scheduled trips on route 1, created at time 0    *)
(* and due at DepartureA; the clock reads 1000, when they may be started.    *)

ScheduledBody ==
  [busId |-> 1, routeId |-> 1, departureTime |-> DepartureA,
   estimatedArrival |-> ArrivalA, status |-> "scheduled", notes |-> NoNotes]

ScheduledTrip == NewTrip(ScheduledBody)

TrackInit ==
  /\ now = 1000
  /\ trips = [t \in TrackedTripIds |-> ScheduledTrip]
  /\ \E due \in {NoDate, 0} :
       buses = [b \in BusIds |-> [NewBus("op1", 0) EXCEPT !.nextMaintenanceDue = due]]
  /\ \E waypoints \in RouteShapes :
       routes = [r \in RouteIds |-> NewRoute(waypoints)]
  /\ resp = Reply("none", NoId, 200)
  /\ reqs = << >>

TrackNext ==
  \/ \E t \in TrackedTripIds, u \in Users : StartTrip(t, u)
  \/ \E t \in TrackedTripIds, u \in Users : CancelTrip(t, u, NoReason)
  \/ \E b \in AnyBusIds, u \in Users, fix \in Fixes : UpdateBusLocation(b, u, fix)
  \/ \E r \in AnyRouteIds : TrackRouteProgress(r)

TrackSpec == TrackInit /\ [][TrackNext]_vars


----------------------------------------------------------------------------
(* Occupancy and schedule fields: one bus of capacity 40, one route, no     *)
(* trip; the trip that is created has its fields and its bus updated.       *)

Occupancies == {0 - 1, 0, 10, 11, 40, 41}

FieldUpdateBodies ==
  { [occupancy |-> n] : n \in Occupancies }
    \cup { [departureTime |-> d] : d \in {1000, DepartureA, ArrivalA} }
    \cup { [estimatedArrival |-> e] : e \in {DepartureA, ArrivalA - 30000} }
    \cup { [departureTime |-> ArrivalA, estimatedArrival |-> DepartureA],
           [departureTime |-> ArrivalA - 30000, estimatedArrival |-> ArrivalA],
           [status |-> "in-progress"] }

FieldBusBodies ==
  { [capacity |-> c] : c \in {9, 10, 40} }
    \cup { [status |-> s] : s \in {"active", "maintenance"} }

FieldNext ==
  \/ Tick
  \/ \E u \in Users, body \in CreateBodies : CreateTrip(u, body)
  \/ \E t \in AnyTripIds, u \in Users, body \in FieldUpdateBodies : UpdateTrip(t, u, body)
  \/ \E t \in LifecycleTripIds, n \in Occupancies : UpdateOccupancy(t, n)
  \/ \E b \in AnyBusIds, u \in Users, body \in FieldBusBodies : UpdateBus(b, u, body)

FieldSpec == Init /\ [][FieldNext]_vars

----------------------------------------------------------------------------
(* Two requests in flight on the one trip of bus 1, which is scheduled or   *)
(* was started at time 1000; each request runs once.                        *)

RequestIds == {1, 2}

\* The bus's operator and another one report and command; the reports are at
\* the three stops of the route.
RaceUsers == {"op1", "op2"}

RaceFixes ==
  { [latitude |-> p[1], longitude |-> p[2], speed |-> Absent, heading |-> Absent] :
      p \in { <<6, 79>>, <<7, 79>>, <<8, 80>> } }

StartedTrip == tripStartTrip(ScheduledTrip, 1000)

RaceInit ==
  /\ now = 1000
  /\ \E trip \in {ScheduledTrip, StartedTrip} : trips = [t \in LifecycleTripIds |-> trip]
  /\ buses = [b \in BusIds |-> NewBus("op1", 0)]
  /\ routes = [r \in RouteIds |-> NewRoute(LineRoute)]
  /\ resp = Reply("none", NoId, 200)
  /\ reqs = << >>

RaceNext ==
  \/ Tick
  \/ \E q \in RequestIds, t \in AnyTripIds, u \in RaceUsers : StartTripRead(q, t, u)
  \/ \E q \in RequestIds, t \in AnyTripIds, u \in RaceUsers : CompleteTripRead(q, t, u)
  \/ \E q \in RequestIds, t \in AnyTripIds, u \in RaceUsers, reason \in Reasons :
       CancelTripRead(q, t, u, reason)
  \/ \E q \in RequestIds, b \in AnyBusIds, u \in RaceUsers, fix \in RaceFixes :
       UpdateBusLocationRead(q, b, u, fix)
  \/ \E q \in RequestIds : TripSaveWrite(q)

RaceSpec == RaceInit /\ [][RaceNext]_vars

----------------------------------------------------------------------------
(* Routes: bus 1 exists, no route and no trip; the admin creates and        *)
(* updates route 1, on which trip 1 is created, started, updated and        *)
(* tracked.                                                                 *)

\* LineRoute as a client may send it: farthest stop first.
ReversedLine ==
  << Waypoint(8, 80, 250), Waypoint(7, 79, 110), Waypoint(6, 79, 0) >>

\* A waypoint outside the accepted region.
OffMapRoute == << Waypoint(4, 79, 0) >>

SentWaypoints == { << >>, LineRoute, ReversedLine, << Waypoint(6, 79, 0) >>, OffMapRoute }

RouteBodies == { [distance |-> 100, waypoints |-> w] : w \in SentWaypoints }

RouteUpdateBodies == { [waypoints |-> w] : w \in SentWaypoints }

RouteTripBodies == { [currentWaypoint |-> n] : n \in {0, 1, 5} }

RouteUsers == {"admin", "op1"}

RouteFixes ==
  { [latitude |-> p[1], longitude |-> p[2], speed |-> Absent, heading |-> Absent] :
      p \in { <<6, 79>>, <<8, 80>> } }

RouteInit ==
  /\ now = 1000
  /\ trips = << >>
  /\ buses = [b \in BusIds |-> NewBus("op1", 0)]
  /\ routes = << >>
  /\ resp = Reply("none", NoId, 200)
  /\ reqs = << >>

RouteNext ==
  \/ \E u \in RouteUsers, body \in RouteBodies : CreateRoute(u, body)
  \/ \E r \in AnyRouteIds, u \in RouteUsers, body \in RouteUpdateBodies :
       UpdateRoute(r, u, body)
  \/ \E u \in RouteUsers : CreateTrip(u, ScheduledBody)
  \/ \E t \in LifecycleTripIds, u \in RouteUsers : StartTrip(t, u)
  \/ \E t \in LifecycleTripIds, u \in RouteUsers, body \in RouteTripBodies :
       UpdateTrip(t, u, body)
  \/ \E b \in BusIds, u \in RouteUsers, fix \in RouteFixes : UpdateBusLocation(b, u, fix)

RouteSpec == RouteInit /\ [][RouteNext]_vars

----------------------------------------------------------------------------
(* Requests through the routers: bus 1 has trip 1 scheduled on route 1.     *)

GateInit ==
  /\ now = 1000
  /\ trips = [t \in LifecycleTripIds |-> ScheduledTrip]
  /\ buses = [b \in BusIds |-> NewBus("op1", 0)]
  /\ routes = [r \in RouteIds |-> NewRoute(LineRoute)]
  /\ resp = Reply("none", NoId, 200)
  /\ reqs = << >>

GateNext ==
  \/ Tick
  \/ \E token \in Tokens : HttpGetAllBuses(token)
  \/ \E b \in AnyBusIds, token \in Tokens : HttpDeleteBus(b, token)
  \/ \E t \in AnyTripIds, token \in Tokens : HttpStartTrip(t, token)
  \/ \E t \in AnyTripIds, token \in Tokens : HttpCompleteTrip(t, token)
  \/ \E t \in AnyTripIds, token \in Tokens : HttpCancelTrip(t, token, NoReason)
  \/ \E b \in AnyBusIds, token \in Tokens, fix \in RouteFixes :
       HttpUpdateBusLocation(b, token, fix)
  \/ \E r \in AnyRouteIds, token \in Tokens : HttpTrackRouteProgress(r, token)

GateSpec == GateInit /\ [][GateNext]_vars

----------------------------------------------------------------------------
(* Claims about the trip lifecycle, checked under Spec *)

\* The caller of a request on trip t is the admin or the operator of its bus.
Authorized(t, u) == role(u) = "admin" \/ buses[trips[t].busId].operatorId = u

\* The request answered with an error and wrote nothing to the trips.
RejectedUnchanged == resp'.code >= 400 /\ trips' = trips

\* C1: every illegal lifecycle transition is rejected and leaves the persisted
\* trip unchanged: startTrip unless the trip is scheduled and its bus active,
\* completeTrip unless the trip is in progress, cancelTrip on a completed or
\* cancelled trip (so a second cancel fails).
C1_IllegalTransitionsRejected ==
  [][\A t \in DOMAIN trips, u \in Users :
       /\ ( /\ \/ trips[t].status # "scheduled"
               \/ buses[trips[t].busId].status # "active"
            /\ resp'.op = "startTrip"
            /\ StartTrip(t, u) )
          => RejectedUnchanged
       /\ ( /\ trips[t].status # "in-progress"
            /\ resp'.op = "completeTrip"
            /\ CompleteTrip(t, u) )
          => RejectedUnchanged
       /\ \A reason \in Reasons :
            ( /\ trips[t].status \in {"completed", "cancelled"}
              /\ resp'.op = "cancelTrip"
              /\ CancelTrip(t, u, reason) )
            => RejectedUnchanged
    ]_vars

\* A second cancel of a cancelled trip was refused.
C1_Witness ==
  /\ resp.op = "cancelTrip" /\ resp.code = 400 /\ resp.seen = "cancelled"
  /\ resp.id \in DOMAIN trips
  /\ trips[resp.id].status = "cancelled"

\* C2: completed and cancelled are terminal: no request changes the status of a
\* trip whose persisted status is completed or cancelled.
C2_TerminalStatuses ==
  [][\A t \in DOMAIN trips :
       trips[t].status \in {"completed", "cancelled"}
         => trips'[t].status = trips[t].status
    ]_vars

\* C3 as claimed: startTrip by an authorized caller on a scheduled trip with an
\* active bus always succeeds, and persists status in-progress and
\* actualDeparture = the time of the call.
C3_StartAlwaysSucceeds ==
  [][\A t \in DOMAIN trips, u \in Users :
       ( /\ Authorized(t, u)
         /\ trips[t].status = "scheduled"
         /\ buses[trips[t].busId].status = "active"
         /\ resp'.op = "startTrip"
         /\ StartTrip(t, u) )
       => /\ resp'.code = 200
          /\ trips'[t].status = "in-progress"
          /\ trips'[t].actualDeparture = now
    ]_vars

\* What the schema asks of a trip started at time t beyond the two checks of
\* the handler: no start more than 30 minutes before the departure time, a
\* recorded arrival later than the start, an active route, an occupancy within
\* the capacity of the bus, notes of at most 500 characters.
StartPassesSchema(doc, t) ==
  /\ t >= doc.departureTime - 30 * 60 * 1000
  /\ doc.actualArrival = NoDate \/ doc.actualArrival > t
  /\ doc.estimatedArrival > doc.departureTime
  /\ routes[doc.routeId].isActive
  /\ doc.occupancy <= buses[doc.busId].capacity
  /\ TextLength(doc.notes) <= 500

\* C3 amended: startTrip by an authorized caller on a scheduled trip with an
\* active bus succeeds exactly when the started trip passes the schema, and
\* then persists status in-progress and actualDeparture = the time of the call
\* and changes nothing else; otherwise it answers 400 and writes nothing.
C3_StartSucceedsIfSchemaPasses ==
  [][\A t \in DOMAIN trips, u \in Users :
       ( /\ Authorized(t, u)
         /\ trips[t].status = "scheduled"
         /\ buses[trips[t].busId].status = "active"
         /\ resp'.op = "startTrip"
         /\ StartTrip(t, u) )
       => IF StartPassesSchema(trips[t], now)
          THEN /\ resp'.code = 200
               /\ trips'[t] = [trips[t] EXCEPT !.status = "in-progress",
                                               !.actualDeparture = now]
          ELSE RejectedUnchanged
    ]_vars

\* A trip was started inside the 30 minutes before its departure time.
C3_Witness ==
  /\ resp.op = "startTrip" /\ resp.code = 200
  /\ trips[resp.id].status = "in-progress"
  /\ trips[resp.id].actualDeparture = trips[resp.id].departureTime - EarlyDepartureMs


\* C4: completeTrip by an authorized caller on an in-progress trip (here: one
\* with a recorded departure earlier than the call) persists status
\* completed, actualArrival = the time of the call and delay = the call time
\* minus estimatedArrival in minutes, rounded to the nearest minute (negative
\* when early).
C4_CompletePersists ==
  [][\A t \in DOMAIN trips, u \in Users :
       ( /\ Authorized(t, u)
         /\ trips[t].status = "in-progress"
         /\ trips[t].actualDeparture # NoDate
         /\ now > trips[t].actualDeparture
         /\ CompleteTrip(t, u) )
       => /\ trips'[t].status = "completed"
          /\ trips'[t].actualArrival = now
          /\ 2 * 60000 * trips'[t].delay <= 2 * (now - trips[t].estimatedArrival) + 60000
          /\ 2 * 60000 * trips'[t].delay > 2 * (now - trips[t].estimatedArrival) - 60000
    ]_vars

\* The text after begins with the whole text before and ends with the reason.
FollowedBy(after, before, reason) ==
  /\ Len(after) >= Len(before) + Len(reason)
  /\ SubSeq(after, 1, Len(before)) = before
  /\ SubSeq(after, Len(after) - Len(reason) + 1, Len(after)) = reason

\* C5: cancelTrip by an authorized caller on a scheduled, in-progress or
\* delayed trip persists status cancelled; with a reason the new notes are the
\* whole previous notes followed by the reason, without one the notes are
\* unchanged.
C5_CancelPersists ==
  [][\A t \in DOMAIN trips, u \in Users, reason \in Reasons :
       ( /\ trips[t].status \in {"scheduled", "in-progress", "delayed"}
         /\ Authorized(t, u)
         /\ CancelTrip(t, u, reason) )
       => /\ trips'[t].status = "cancelled"
          /\ IF reason = NoReason
             THEN trips'[t].notes = trips[t].notes
             ELSE FollowedBy(trips'[t].notes, trips[t].notes, reason)
    ]_vars

\* The persisted trip is scheduled and its departure time has come.
Overdue(t) ==
  trips[t].status = "scheduled" /\ trips[t].departureTime <= now

\* C6: no operation observes or acts on a trip as scheduled once its departure
\* time has come: the list of active trips an admin reads contains every such
\* trip, a read of it shows it in progress, and completeTrip accepts it as the
\* in-progress trip it is.
C6_ClockRuleBeforeEveryOperation ==
  [][\A t \in DOMAIN trips, u \in Users :
       ( Overdue(t) /\ Authorized(t, u) )
       => /\ (GetActiveTrips(u) /\ role(u) = "admin") => t \in resp'.items
          /\ GetTripById(t, u) => resp'.seen = "in-progress"
          /\ CompleteTrip(t, u) => resp'.code = 200
    ]_vars

\* C7: the save-time clock rule changes a trip only when it is scheduled and
\* its departure time has come: it then sets the status to in-progress and
\* sets actualDeparture to the current time only if none is recorded; any
\* other trip it leaves as it is; applied again it changes nothing more, and
\* once it has started a trip it changes nothing at any later time.
C7_ClockRule ==
  \A t \in DOMAIN trips, h \in Instants :
    LET doc == trips[t]
        due == doc.status = "scheduled" /\ doc.departureTime <= h
        r == TripPreSave(doc, h)
    IN /\ due => /\ r.status = "in-progress"
                 /\ r.actualDeparture = IF doc.actualDeparture = NoDate
                                          THEN h ELSE doc.actualDeparture
                 /\ [r EXCEPT !.status = doc.status,
                              !.actualDeparture = doc.actualDeparture] = doc
       /\ ~due => r = doc
       /\ TripPreSave(r, h) = r
       /\ due => \A h2 \in Instants : TripPreSave(r, h2) = r

\* A trip created as scheduled whose departure time came between the
\* validation and the hook of its first save: the hook started it.
C7_Witness ==
  /\ resp.op = "createTrip" /\ resp.code = 201
  /\ trips[resp.id].status = "in-progress"
  /\ trips[resp.id].actualDeparture = trips[resp.id].departureTime
  /\ now = trips[resp.id].departureTime


\* C24: getActiveTrips returns exactly the trips stored as in progress, and to
\* an operator exactly those of them whose bus the operator owns.
C24_ActiveTripsOfCaller ==
  [][\A u \in Users :
       resp'.op = "getActiveTrips" /\ GetActiveTrips(u)
       => resp'.items =
            {t \in DOMAIN trips :
               /\ trips[t].status = "in-progress"
               /\ role(u) = "operator" => buses[trips[t].busId].operatorId = u}]_vars

----------------------------------------------------------------------------
(* Claims about the position reports, checked under TrackSpec *)

\* The in-progress trips of bus b.
InProgressOf(b) ==
  {t \in DOMAIN trips : trips[t].busId = b /\ trips[t].status = "in-progress"}

\* Index k is a waypoint nearest to (lat, lng), and no lower index is as near.
IsLowestNearest(k, lat, lng, waypoints) ==
  /\ k \in 0 .. Len(waypoints) - 1
  /\ \A j \in 0 .. Len(waypoints) - 1 :
       LET dk == calculateDistance(lat, lng, waypoints[k + 1].latitude,
                                   waypoints[k + 1].longitude)
           dj == calculateDistance(lat, lng, waypoints[j + 1].latitude,
                                   waypoints[j + 1].longitude)
       IN  dk <= dj /\ (j < k => dj > dk)

\* C8: a successful position report of a bus with an in-progress trip on a
\* route with waypoints sets the currentWaypoint of that trip to the index of
\* the waypoint at the least great-circle distance from the reported position,
\* the lowest such index on a tie, answers with that trip and index, and
\* leaves every other trip alone; without such a trip it changes no trip.
C8_NearestWaypointLowestIndex ==
  [][\A b \in AnyBusIds, u \in Users, fix \in Fixes :
       ( /\ resp'.op = "updateBusLocation" /\ resp'.id = b /\ resp'.code = 200
         /\ UpdateBusLocation(b, u, fix) )
       => IF \E t \in InProgressOf(b) : Len(routes[trips[t].routeId].waypoints) > 0
          THEN \E t \in InProgressOf(b) :
                 /\ resp'.progress.tripId = t
                 /\ resp'.progress.currentWaypoint = trips'[t].currentWaypoint
                 /\ IsLowestNearest(trips'[t].currentWaypoint, fix.latitude,
                                    fix.longitude,
                                    routes[trips[t].routeId].waypoints)
                 /\ \A o \in DOMAIN trips \ {t} : trips'[o] = trips[o]
          ELSE trips' = trips /\ resp'.progress = NoProgress
    ]_vars

\* A report from (7, 79), as near to the second stop of the tie route as to
\* its third, put the trip at the second stop (index 1).
C8_Witness ==
  /\ resp.op = "updateBusLocation" /\ resp.code = 200
  /\ resp.progress.tripId \in DOMAIN trips
  /\ routes[trips[resp.progress.tripId].routeId].waypoints = TieRoute
  /\ buses[resp.id].currentLocation.latitude = 7
  /\ buses[resp.id].currentLocation.longitude = 79
  /\ trips[resp.progress.tripId].currentWaypoint = 1

\* The indices of the waypoints that lie at the reported position.
IndicesAt(fix, waypoints) ==
  {k \in 0 .. Len(waypoints) - 1 :
     /\ waypoints[k + 1].latitude = fix.latitude
     /\ waypoints[k + 1].longitude = fix.longitude}

\* C9 as claimed: a successful report whose position is exactly the
\* coordinates of waypoint k of the route of the in-progress trip sets the
\* currentWaypoint of the trip to k.
C9_ExactWaypointSelected ==
  [][\A b \in AnyBusIds, u \in Users, fix \in Fixes :
       ( /\ resp'.op = "updateBusLocation" /\ resp'.id = b /\ resp'.code = 200
         /\ resp'.progress.tripId # NoId
         /\ UpdateBusLocation(b, u, fix) )
       => LET t == resp'.progress.tripId IN
            \A k \in IndicesAt(fix, routes[trips[t].routeId].waypoints) :
              trips'[t].currentWaypoint = k
    ]_vars

\* C9 amended: such a report sets the currentWaypoint of the trip to the
\* lowest index of a waypoint with those coordinates: to k, unless an earlier
\* waypoint of the route has the same coordinates.
C9_ExactWaypointLowestIndex ==
  [][\A b \in AnyBusIds, u \in Users, fix \in Fixes :
       ( /\ resp'.op = "updateBusLocation" /\ resp'.id = b /\ resp'.code = 200
         /\ resp'.progress.tripId # NoId
         /\ UpdateBusLocation(b, u, fix) )
       => LET t == resp'.progress.tripId
              at == IndicesAt(fix, routes[trips[t].routeId].waypoints)
          IN  at # {} => /\ trips'[t].currentWaypoint \in at
                         /\ \A k \in at : trips'[t].currentWaypoint <= k
    ]_vars

\* A report from (7, 80), the second and the fourth stop of the out-and-back
\* route, put the trip at the second stop (index 1).
C9_Witness ==
  /\ resp.op = "updateBusLocation" /\ resp.code = 200
  /\ resp.progress.tripId \in DOMAIN trips
  /\ routes[trips[resp.progress.tripId].routeId].waypoints = OutAndBackRoute
  /\ buses[resp.id].currentLocation.latitude = 7
  /\ buses[resp.id].currentLocation.longitude = 80
  /\ trips[resp.progress.tripId].currentWaypoint = 1

\* C10: every successful position report replaces the current location of the
\* bus by the reported latitude and longitude, the reported speed and heading
\* or 0 for each that is missing, and lastUpdated = the time of the report,
\* whether or not the bus has an in-progress trip.
C10_LocationReplaced ==
  [][\A b \in AnyBusIds, u \in Users, fix \in Fixes :
       ( /\ resp'.op = "updateBusLocation" /\ resp'.id = b /\ resp'.code = 200
         /\ UpdateBusLocation(b, u, fix) )
       => buses'[b].currentLocation =
            [latitude |-> fix.latitude, longitude |-> fix.longitude,
             speed |-> IF fix.speed = Absent THEN 0 ELSE fix.speed,
             heading |-> IF fix.heading = Absent THEN 0 ELSE fix.heading,
             lastUpdated |-> now]
    ]_vars

\* A report without speed and heading of a bus with no in-progress trip left
\* the location with speed 0, heading 0 and the time of the report.
C10_Witness ==
  /\ resp.op = "updateBusLocation" /\ resp.code = 200
  /\ resp.progress = NoProgress
  /\ InProgressOf(resp.id) = {}
  /\ buses[resp.id].currentLocation.latitude # NoCoord
  /\ buses[resp.id].currentLocation.speed = 0
  /\ buses[resp.id].currentLocation.heading = 0
  /\ buses[resp.id].currentLocation.lastUpdated = now


\* C11: a position report of a bus that has no in-progress trip changes no
\* trip record, whatever the other trips of the bus are, and answers without a
\* tripProgress.
C11_NoInProgressNoTripChange ==
  [][\A b \in AnyBusIds, u \in Users, fix \in Fixes :
       ( /\ b \in DOMAIN buses
         /\ InProgressOf(b) = {}
         /\ resp'.op = "updateBusLocation" /\ resp'.id = b
         /\ UpdateBusLocation(b, u, fix) )
       => trips' = trips /\ resp'.progress = NoProgress
    ]_vars

\* A report was accepted for a bus on a route with waypoints whose trips are
\* scheduled or cancelled, one of them cancelled: they are as they were created.
C11_Witness ==
  /\ resp.op = "updateBusLocation" /\ resp.code = 200
  /\ resp.progress = NoProgress
  /\ InProgressOf(resp.id) = {}
  /\ \E t \in DOMAIN trips :
       trips[t].busId = resp.id /\ trips[t].status = "cancelled"
  /\ \A t \in DOMAIN trips :
       /\ Len(routes[trips[t].routeId].waypoints) > 0
       /\ trips[t].currentWaypoint = 0
  /\ buses[resp.id].currentLocation.latitude = 8


\* What calculateNearestWaypoint gives for the fix on the route of trip t.
ComputedIndex(t, fix) ==
  calculateNearestWaypoint(fix.latitude, fix.longitude,
                           routes[trips[t].routeId].waypoints)

\* C12: a position report does not enforce monotonic progress: the index it
\* computes is persisted as computed, also when it is lower than the stored
\* currentWaypoint; and the trip is written only when the computed index
\* differs from the stored one: a report that computes the stored index of
\* every in-progress trip of the bus succeeds and leaves the trips alone, even
\* when a save of the trip would be refused.
C12_NoMonotonicProgress ==
  [][\A b \in AnyBusIds, u \in Users, fix \in Fixes :
       ( /\ resp'.op = "updateBusLocation" /\ resp'.id = b
         /\ resp'.code \notin {403, 404}
         /\ UpdateBusLocation(b, u, fix) )
       => /\ ( resp'.code = 200 /\ resp'.progress.tripId # NoId )
             => LET t == resp'.progress.tripId IN
                  /\ trips'[t].currentWaypoint = ComputedIndex(t, fix)
                  /\ resp'.progress.currentWaypoint = ComputedIndex(t, fix)
                  /\ ComputedIndex(t, fix) = trips[t].currentWaypoint
                       => trips' = trips
          /\ ( \A t \in InProgressOf(b) :
                 ComputedIndex(t, fix) = trips[t].currentWaypoint )
             => resp'.code = 200 /\ trips' = trips
    ]_vars

\* A report was accepted for an in-progress trip whose bus is in maintenance:
\* it computed the stored index and did not save the trip, which the busId
\* validator would have refused.
C12_Witness ==
  /\ resp.op = "updateBusLocation" /\ resp.code = 200
  /\ resp.progress.tripId \in DOMAIN trips
  /\ trips[resp.progress.tripId].status = "in-progress"
  /\ trips[resp.progress.tripId].currentWaypoint = resp.progress.currentWaypoint
  /\ buses[resp.id].status = "maintenance"


\* p is currentWaypoint / waypointCount * 100 rounded to the nearest integer
\* (halves upward).
IsRoundedPercentage(p, currentWaypoint, waypointCount) ==
  /\ 2 * waypointCount * p <= 200 * currentWaypoint + waypointCount
  /\ 2 * waypointCount * p > 200 * currentWaypoint - waypointCount

\* C13 as claimed: a successful report of a bus with an in-progress trip
\* answers with the progress of one of its in-progress trips, which is
\* round(currentWaypoint / waypointCount * 100), and 0 when the route has no
\* waypoints.
C13_ProgressZeroWithoutWaypoints ==
  [][\A b \in AnyBusIds, u \in Users, fix \in Fixes :
       ( /\ resp'.op = "updateBusLocation" /\ resp'.id = b /\ resp'.code = 200
         /\ b \in DOMAIN buses
         /\ InProgressOf(b) # {}
         /\ UpdateBusLocation(b, u, fix) )
       => LET t == resp'.progress.tripId IN
            /\ t \in InProgressOf(b)
            /\ LET n == Len(routes[trips[t].routeId].waypoints) IN
                 IF n = 0 THEN resp'.progress.progress = 0
                 ELSE IsRoundedPercentage(resp'.progress.progress,
                                          trips'[t].currentWaypoint, n)
    ]_vars

\* C13 amended: such a report answers with the progress
\* round(currentWaypoint / waypointCount * 100) of the trip when its route has
\* waypoints, and with no tripProgress at all when the route has none.
C13_ProgressRounded ==
  [][\A b \in AnyBusIds, u \in Users, fix \in Fixes :
       ( /\ resp'.op = "updateBusLocation" /\ resp'.id = b /\ resp'.code = 200
         /\ b \in DOMAIN buses
         /\ InProgressOf(b) # {}
         /\ UpdateBusLocation(b, u, fix) )
       => IF \A t \in InProgressOf(b) : Len(routes[trips[t].routeId].waypoints) = 0
          THEN resp'.progress = NoProgress
          ELSE LET t == resp'.progress.tripId IN
                 /\ t \in InProgressOf(b)
                 /\ resp'.progress.currentWaypoint = trips'[t].currentWaypoint
                 /\ IsRoundedPercentage(resp'.progress.progress,
                                        trips'[t].currentWaypoint,
                                        Len(routes[trips[t].routeId].waypoints))
    ]_vars

\* A report put a trip at index 2 of the four waypoints of the out-and-back
\* route and answered with a progress of 50.
C13_Witness ==
  /\ resp.op = "updateBusLocation" /\ resp.code = 200
  /\ resp.progress.tripId \in DOMAIN trips
  /\ Len(routes[trips[resp.progress.tripId].routeId].waypoints) = 4
  /\ resp.progress.currentWaypoint = 2
  /\ resp.progress.progress = 50


\* The bus has had a position recorded.
HasFix(b) == buses[b].currentLocation.latitude # NoCoord

\* C14: estimateArrival gives null unless the trip is in progress and its bus
\* has a recorded position: null for every trip of another status, and for an
\* in-progress trip whose bus never had a position recorded.
C14_NoEtaWithoutFix ==
  [][\A r \in AnyRouteIds :
       ( resp'.op = "trackRouteProgress" /\ resp'.code = 200
         /\ TrackRouteProgress(r) )
       => /\ \A t \in DOMAIN trips :
               (trips[t].routeId = r /\ trips[t].status # "in-progress")
               => calculateETA(trips[t], buses[trips[t].busId], routes[r], now) = NoEta
          /\ \A t \in DOMAIN resp'.etas :
               (trips[t].status # "in-progress" \/ ~HasFix(trips[t].busId))
               => resp'.etas[t] = NoEta
    ]_vars

\* C15: for an in-progress trip on a route with waypoints estimateArrival is
\* now + remainingTimeMinutes, with remainingDistance = route.distance *
\* (1 - currentWaypoint / waypointCount) and remainingTimeMinutes =
\* remainingDistance / 50 * 60, whatever speed the bus reported (in
\* milliseconds: waypointCount * (eta - now) = distance * (waypointCount -
\* currentWaypoint) * 72000).
C15_EtaFromAverageSpeed ==
  [][\A r \in AnyRouteIds :
       ( resp'.op = "trackRouteProgress" /\ resp'.code = 200
         /\ TrackRouteProgress(r) )
       => \A t \in DOMAIN trips :
            ( /\ trips[t].routeId = r
              /\ trips[t].status = "in-progress"
              /\ Len(routes[r].waypoints) > 0 )
            => /\ t \in DOMAIN resp'.etas
               /\ Len(routes[r].waypoints) * (resp'.etas[t] - now)
                    = routes[r].distance
                        * (Len(routes[r].waypoints) - trips[t].currentWaypoint)
                        * 72000
    ]_vars

\* The route of 100 km with four waypoints was tracked while a trip was at
\* index 2 and its bus reported 65 km/h: the estimate is 60 minutes from now.
C15_Witness ==
  /\ resp.op = "trackRouteProgress" /\ resp.code = 200
  /\ \E t \in DOMAIN resp.etas :
       /\ trips[t].status = "in-progress"
       /\ trips[t].currentWaypoint = 2
       /\ Len(routes[resp.id].waypoints) = 4
       /\ routes[resp.id].distance = 100
       /\ buses[trips[t].busId].currentLocation.speed = 65
       /\ resp.etas[t] = now + 60 * MsPerMinute

\* C20: no operation leaves a partial update behind: a position report whose
\* save of the trip fails leaves the bus's location as it was, and a lifecycle
\* transition whose save fails changes no field of the stored trip.
C20_NoPartialUpdate ==
  [][/\ \A b \in BusIds :
          resp'.op = "updateBusLocation" /\ resp'.id = b /\ resp'.code = 400
          /\ (\E u \in Users, fix \in Fixes : UpdateBusLocation(b, u, fix))
          => buses'[b].currentLocation = buses[b].currentLocation /\ trips' = trips
     /\ resp'.op \in {"startTrip", "cancelTrip"} /\ resp'.code = 400
        => trips' = trips]_vars

\* C27: a bus has at most one trip in progress in every reachable state.
C27_OneTripInProgressPerBus ==
  \A b \in BusIds :
    Cardinality({t \in DOMAIN trips :
                   trips[t].busId = b /\ trips[t].status = "in-progress"}) <= 1

\* C29: a position report changes no field of the bus other than the
\* location: status, capacity and active flag are as before the call.
C29_ReportChangesLocationOnly ==
  [][\A b \in BusIds :
       resp'.op = "updateBusLocation" /\ resp'.id = b
       /\ (\E u \in Users, fix \in Fixes : UpdateBusLocation(b, u, fix))
       => [buses'[b] EXCEPT !.currentLocation = buses[b].currentLocation]
            = buses[b]]_vars

\* C30: route tracking does not fail and gives every in-progress trip of the
\* route an estimate that is not earlier than the current time.
C30_EtaWellDefined ==
  [][\A r \in RouteIds :
       resp'.op = "trackRouteProgress" /\ resp'.id = r /\ TrackRouteProgress(r)
       => /\ resp'.code = 200
          /\ \A t \in DOMAIN trips :
               trips[t].routeId = r /\ trips[t].status = "in-progress"
               => t \in DOMAIN resp'.etas /\ resp'.etas[t] >= now]_vars

----------------------------------------------------------------------------
(* Claims about occupancy and schedule fields, checked under FieldSpec *)

Capacity(t) == buses[trips[t].busId].capacity

\* C16: updateOccupancy(n) on a trip fails and leaves the stored occupancy
\* unchanged when n is greater than the capacity of the trip's bus, and
\* succeeds, storing occupancy = n, whenever 0 <= n <= capacity.
C16_OccupancyWithinCapacitySucceeds ==
  [][\A t \in LifecycleTripIds, n \in Occupancies :
       t \in DOMAIN trips /\ resp'.op = "updateOccupancy" /\ resp'.id = t
       /\ UpdateOccupancy(t, n)
       => IF n > Capacity(t)
          THEN resp'.code # 200 /\ trips' = trips
          ELSE n >= 0 => resp'.code = 200 /\ trips'[t].occupancy = n]_vars

\* C17: in every reachable state the occupancy of every trip is at most the
\* capacity of its bus.
C17_OccupancyAtMostCapacity ==
  \A t \in DOMAIN trips : trips[t].occupancy <= Capacity(t)

\* C18: every stored trip has estimatedArrival > departureTime; a creation
\* with estimatedArrival <= departureTime is refused and inserts nothing.
C18_ArrivalAfterDeparture ==
  [][/\ \A t \in DOMAIN trips' :
          trips'[t].estimatedArrival > trips'[t].departureTime
     /\ \A u \in Users, body \in CreateBodies :
          body.estimatedArrival <= body.departureTime
          /\ resp'.op = "createTrip" /\ CreateTrip(u, body)
          => resp'.code = 400 /\ trips' = trips]_vars

\* An update that would put departureTime at or after estimatedArrival was
\* refused: trip 1 is in progress, so that no other rule refuses a later
\* departureTime, and keeps the schedule it was created with although an
\* earlier update had moved it.
C18_Witness ==
  /\ 1 \in DOMAIN trips
  /\ trips[1].status = "in-progress"
  /\ trips[1].departureTime = ArrivalA - 30000
  /\ trips[1].estimatedArrival = ArrivalA
  /\ buses[1].status = "active"
  /\ resp.op = "updateTrip" /\ resp.id = 1 /\ resp.code = 400

----------------------------------------------------------------------------
(* Claims about interleaved requests, checked under RaceSpec *)

\* The requests that have written path f of trip t.
Writers(t, f) ==
  {q \in Written : reqs[q].trip = t /\ f \in modifiedPaths(reqs[q].loaded, reqs[q].doc)}

\* C19: when requests on the same trip interleave, the stored currentWaypoint
\* (and the stored status) is the value of the request that wrote it last, and
\* the loaded value when no request wrote it: never a value no request computed.
C19_LastWriterWins ==
  \A t \in DOMAIN trips, f \in {"currentWaypoint", "status"} :
    /\ \A q \in Writers(t, f) :
         (\A x \in Writers(t, f) : reqs[x].wrote <= reqs[q].wrote)
         => trips[t][f] = reqs[q].doc[f]
    /\ Writers(t, f) = {}
       => \A q \in DOMAIN reqs : reqs[q].trip = t => trips[t][f] = reqs[q].loaded[f]

\* Two position reports loaded the trip at index 0, computed the indices 1
\* and 2 and both saved: neither had seen the other's write, and the index
\* stored is the one written last.
C19_Witness ==
  /\ Written = RequestIds
  /\ \A q \in RequestIds :
       /\ reqs[q].answer.op = "updateBusLocation"
       /\ reqs[q].loaded.currentWaypoint = 0
  /\ reqs[1].doc.currentWaypoint = 2 /\ reqs[1].wrote = 1
  /\ reqs[2].doc.currentWaypoint = 1 /\ reqs[2].wrote = 2
  /\ trips[1].currentWaypoint = 1

\* A completion and a cancellation both loaded the trip in progress and both
\* saved, the cancellation last.
RacingTransitions ==
  /\ Written = RequestIds
  /\ reqs[1].answer.op = "completeTrip" /\ reqs[1].wrote = 1
  /\ reqs[2].answer.op = "cancelTrip" /\ reqs[2].wrote = 2
  /\ trips[1].status = "cancelled"

\* C25: under every interleaving of start, complete and cancel requests on a
\* trip, actualArrival is set only on a trip stored as completed: no trip is
\* cancelled while carrying the actualArrival of a completion.
C25_ArrivalOnlyWhenCompleted ==
  \A t \in DOMAIN trips :
    trips[t].actualArrival # NoDate => trips[t].status = "completed"

\* C26: the save of a position report never changes the currentWaypoint of a
\* trip that is stored as completed or cancelled when the save writes.
C26_NoIndexWriteAfterEnd ==
  [][\A q \in RequestIds :
       /\ q \in DOMAIN reqs
       /\ reqs[q].answer.op = "updateBusLocation"
       /\ trips[reqs[q].trip].status \in {"completed", "cancelled"}
       /\ TripSaveWrite(q)
       => trips'[reqs[q].trip].currentWaypoint
            = trips[reqs[q].trip].currentWaypoint]_vars

----------------------------------------------------------------------------
(* Claims about routes, checked under RouteSpec *)

IsSortedByDistance(waypoints) ==
  \A i \in 1..(Len(waypoints) - 1) :
    waypoints[i].distanceFromStart <= waypoints[i + 1].distanceFromStart

\* C21: in every reachable state the waypoints of every route are sorted
\* ascending by distanceFromStart, after a creation and after every update.
C21_WaypointsSorted ==
  \A r \in DOMAIN routes : IsSortedByDistance(routes[r].waypoints)

\* C28: in every reachable state the currentWaypoint of every trip is 0 or
\* less than the number of waypoints of its route.
C28_IndexWithinRoute ==
  \A t \in DOMAIN trips :
    \/ trips[t].currentWaypoint = 0
    \/ /\ trips[t].routeId \in DOMAIN routes
       /\ trips[t].currentWaypoint < Len(routes[trips[t].routeId].waypoints)

----------------------------------------------------------------------------
(* Claims about requests through the routers, checked under GateSpec *)

\* C22: startTrip, completeTrip and cancelTrip on an id that matches no trip,
\* and a position report on an id that matches no bus or a deleted bus,
\* answer 404 and change no trip and no bus.
C22_NotFoundChangesNothing ==
  [][/\ \A t \in AnyTripIds \ DOMAIN trips :
          resp'.id = t
          /\ (\E token \in Users :
                \/ resp'.op = "startTrip" /\ HttpStartTrip(t, token)
                \/ resp'.op = "completeTrip" /\ HttpCompleteTrip(t, token)
                \/ resp'.op = "cancelTrip" /\ HttpCancelTrip(t, token, NoReason))
          => resp'.code = 404 /\ UNCHANGED <<trips, buses>>
     /\ \A b \in AnyBusIds :
          (b \notin DOMAIN buses \/ ~buses[b].isActive)
          /\ resp'.op = "updateBusLocation" /\ resp'.id = b
          /\ (\E token \in Users, fix \in RouteFixes :
                HttpUpdateBusLocation(b, token, fix))
          => resp'.code = 404 /\ UNCHANGED <<trips, buses>>]_vars

\* A position report for bus 1 after its deletion was answered 404; the bus
\* has still never been located.
C22_Witness ==
  /\ ~buses[1].isActive
  /\ buses[1].currentLocation.latitude = NoCoord
  /\ resp.op = "updateBusLocation" /\ resp.id = 1 /\ resp.code = 404

\* C23: a request without token to a protected route (bus listing, trip
\* lifecycle, position report) is answered 401 with nothing of the stored
\* state, and changes nothing.
C23_NoTokenRejected ==
  [][(\/ resp'.op = "getAllBuses" /\ HttpGetAllBuses(NoToken)
      \/ \E t \in AnyTripIds :
           /\ resp'.id = t
           /\ \/ resp'.op = "startTrip" /\ HttpStartTrip(t, NoToken)
              \/ resp'.op = "completeTrip" /\ HttpCompleteTrip(t, NoToken)
              \/ resp'.op = "cancelTrip" /\ HttpCancelTrip(t, NoToken, NoReason)
      \/ \E b \in AnyBusIds, fix \in RouteFixes :
           /\ resp'.op = "updateBusLocation" /\ resp'.id = b
           /\ HttpUpdateBusLocation(b, NoToken, fix))
       => /\ resp'.code = 401
          /\ resp'.items = {} /\ resp'.seen = "none" /\ resp'.progress = NoProgress
          /\ UNCHANGED <<now, trips, buses, routes>>]_vars

\* A position report without token was answered 401 while trip 1 was in
\* progress on bus 1, which has never been located.
C23_Witness ==
  /\ trips[1].status = "in-progress"
  /\ buses[1].isActive /\ buses[1].currentLocation.latitude = NoCoord
  /\ resp.op = "updateBusLocation" /\ resp.id = 1 /\ resp.code = 401

====
